---- MODULE Spec2Model ----
(***************************************************************************)
(* midilang: the chord decoder (parse_chord, c_major) and the AST builder  *)
(* (MidiASTBuilder) of src/src/parser.rs as state machines.                *)
(*                                                                         *)
(* SpecChord   a caller assembles a sorted chord and hands it to           *)
(*             parse_chord with the c_major key.                           *)
(* SpecBuilder a caller drives a MidiASTBuilder through push and into_mast.*)
(***************************************************************************)
EXTENDS Integers, Sequences, FiniteSets, TLC

VARIABLES
    overflow_checks,   \* build profile: TRUE = arithmetic overflow panics (debug), FALSE = it wraps (release)
    vals,              \* the sorted Vec<u8> handed to parse_chord
    encoded,           \* <<>> or <<a>>: the amount the chord was built from by the bitmask scheme
    chord_ret,         \* what parse_chord returned for vals (NoRet before the call)
    body,              \* MidiASTBuilder.body
    size,              \* MidiASTBuilder.size
    loop_stack,        \* MidiASTBuilder.loop_stack: sequence of <<saved body, loop start>>
    calls,             \* every push call so far: the instruction given and whether push returned Ok
    ret,               \* what the last push returned (NoRet on a fresh builder)
    mast,              \* what into_mast returned for the builder as it stands (NoRet: not called)
    current_node,      \* parse: the BinaryHeap of struck keys, kept as the sorted vector it yields
    notes_on,          \* parse: the held-note counter of the current track
    track,             \* parse: number of tracks whose events parse has begun to read
    events,            \* parse: number of track events read so far
    group,             \* parse: keys of the NoteOn events since the counter was last reset to zero
    parse_ret,         \* what parse returned (NoRet while it runs)
    bf_program,        \* from_brainfuck: the characters read so far
    ml_prog,           \* from_brainfuck: ml_prog.tracks, each a sequence of track events
    module,            \* MidiCompiler: the backend calls made on the module and the builder, in order
    builder,           \* MidiCompiler: the block the builder is positioned at ("" for none)
    blocks,            \* MidiCompiler.blocks
    context,           \* MidiCompiler.context
    strings,           \* MidiCompiler.strings
    ccalls,            \* the calls made on the compiler so far, in order
    cret,              \* what the last of them returned
    pc,                \* where the owner of the compiler stands
    midi_program,      \* compile_program: its argument
    src_str,           \* utils: the source file name, a sequence of characters
    name_call          \* utils: the naming function last called on it and what it returned

chord_vars   == <<overflow_checks, vals, encoded, chord_ret>>
builder_vars == <<body, size, loop_stack, calls, ret, mast>>
parse_vars   == <<current_node, notes_on, track, events, group, parse_ret>>
bf_vars      == <<bf_program, ml_prog>>
utils_vars   == <<src_str, name_call>>
compiler_vars == <<module, builder, blocks, context, strings, ccalls, cret, pc, midi_program>>
vars         == <<overflow_checks, vals, encoded, chord_ret,
                  body, size, loop_stack, calls, ret, mast,
                  current_node, notes_on, track, events, group, parse_ret,
                  bf_program, ml_prog,
                  module, builder, blocks, context, strings, ccalls, cret, pc, midi_program,
                  src_str, name_call>>

-----------------------------------------------------------------------------
(* Bounds of the model *)

MaxPitch    == 25    \* struck notes are drawn from 0..MaxPitch
MaxChordLen == 4     \* longest chord assembled note by note
MaxLowOct   == 1     \* synthetic chords: lowest note in octaves 0..MaxLowOct
MaxBaseGap  == 2     \* synthetic chords: base note 1..MaxBaseGap above the lowest note
MaxPushes   == 7     \* push calls per builder
MaxTracks   == 2     \* tracks of a parsed file
MaxEvents   == 6     \* track events of a parsed file
MaxText     == 4     \* characters of a brainfuck program

(* Program constants *)

PitchClasses == 12   \* vals[0] % 12
GapLimit     == 8    \* if tmp > 8 { break }
AmountBits   == 7    \* value bits of the i8 amount: amounts 1..127
I8Max        == 127
I8Min        == -128
U8Max        == 255

-----------------------------------------------------------------------------
(* Option, Result and panics *)

None      == <<>>
Some(x)   == <<x>>
NoRet     == [tag |-> "None",  val |-> <<>>]
Ok(v)     == [tag |-> "Ok",    val |-> <<v>>]
Err(e)    == [tag |-> "Err",   val |-> <<e>>]
Panic(m)  == [tag |-> "Panic", val |-> <<m>>]
Unit      == [unit |-> TRUE]

(* MParseError *)
NoTracks         == [err |-> "NoTracks"]
NonDiatonic      == [err |-> "NonDiatonic"]
DanglingLoop(p)  == [err |-> "DanglingLoop", pos |-> p]
UnclosedLoop(ps) == [err |-> "UnclosedLoop", loops |-> ps]

(* i8 / u8 arithmetic: the value kept when an overflowing operation wraps *)
WrapI8(x) == ((x + 128 + 1024) % 256) - 128
WrapU8(x) == (x + 1024) % 256
FitsI8(x) == I8Min <= x /\ x <= I8Max
FitsU8(x) == 0 <= x /\ x <= U8Max

-----------------------------------------------------------------------------
(* Position and MidiInstruction *)

Position(s, e) == [start |-> s, end |-> e]

MidiInstruction(pos, k, a, b) ==
    [position |-> pos, kind |-> k, amount |-> a, body |-> b]

new_inc(amount)  == MidiInstruction(None, "IncrementCell", amount, <<>>)
new_move(amount) == MidiInstruction(None, "MovePointer", amount, <<>>)
new_close_loop   == MidiInstruction(None, "Loop", 0, <<>>)
new_open_loop    == MidiInstruction(Some(Position(0, 0)), "Loop", 0, <<>>)
new_output       == MidiInstruction(None, "OutputCell", 0, <<>>)
new_input        == MidiInstruction(None, "InputCell", 0, <<>>)

set_position(inst, new_pos) == [inst EXCEPT !.position = Some(new_pos)]

IsOpenLoop(inst)  == inst.kind = "Loop" /\ inst.position # None
IsCloseLoop(inst) == inst.kind = "Loop" /\ inst.position = None
IsLeaf(inst)      == inst.kind # "Loop"

-----------------------------------------------------------------------------
(* parse_chord: the scan of vals[1..] that accumulates the amount *)

\* the locals of parse_chord before the loop (lines 217-220)
ScanInit(root) ==
    [arg |-> None, base |-> None, prev |-> root, status |-> "run"]

\* ScanNote with the gap taken as vv - bb, one bit too high
ScanNote_gap_off_by_one(st, vv) ==
    IF st.status # "run" THEN st
    ELSE IF st.prev = vv THEN st
    ELSE IF st.base # None THEN
        LET tmp == vv - st.base[1]
        IN  IF tmp > GapLimit THEN [st EXCEPT !.status = "break"]
            ELSE LET to_add == WrapI8(2 ^ tmp)
                     sum == IF st.arg = None THEN to_add ELSE st.arg[1] + to_add
                 IN  IF (~FitsI8(2 ^ tmp) \/ ~FitsI8(sum)) /\ overflow_checks
                     THEN [st EXCEPT !.status = "panic"]
                     ELSE [st EXCEPT !.arg = Some(WrapI8(sum))]
    ELSE [st EXCEPT !.base = Some(vv), !.prev = vv]

\* one iteration of the for loop over vals[1..] (lines 222-235); status is
\* "run" while the loop goes on, "break" after the break, "panic" when an
\* arithmetic overflow panicked (overflow_checks) instead of wrapping
ScanNote(st, vv) ==
    IF st.status # "run" THEN st
    ELSE IF st.prev = vv THEN st
    ELSE IF st.base # None THEN
        LET bb  == st.base[1]
            tmp == vv - bb - 1
        IN  IF ~FitsU8(tmp) /\ overflow_checks THEN [st EXCEPT !.status = "panic"]
            ELSE IF WrapU8(tmp) > GapLimit THEN [st EXCEPT !.status = "break"]
            ELSE LET pw  == 2 ^ WrapU8(tmp)
                     to_add == WrapI8(pw)
                     sum == IF st.arg = None THEN to_add ELSE st.arg[1] + to_add
                 IN  IF ~FitsI8(pw) /\ overflow_checks THEN [st EXCEPT !.status = "panic"]
                     ELSE IF ~FitsI8(sum) /\ overflow_checks THEN [st EXCEPT !.status = "panic"]
                     ELSE [st EXCEPT !.arg = Some(WrapI8(sum))]
    ELSE [st EXCEPT !.base = Some(vv), !.prev = vv]

RECURSIVE ScanFrom(_, _, _)
ScanFrom(v, i, st) ==
    IF i > Len(v) THEN st ELSE ScanFrom(v, i + 1, ScanNote(st, v[i]))

\* the locals of parse_chord after the loop (lines 217-236)
ScanChord(v) == ScanFrom(v, 2, ScanInit(v[1] % PitchClasses))

\* let amount = arg.unwrap_or(1) (line 237)
chord_amount(v) ==
    LET st == ScanChord(v) IN IF st.arg = None THEN 1 ELSE st.arg[1]

\* c_major with the two arms of root 11 exchanged
c_major_io_swapped(root, arg) ==
    CASE root = 0  -> Ok(new_close_loop)
      [] root = 2  -> Ok(new_move(-arg))
      [] root = 4  -> Ok(new_move(arg))
      [] root = 5  -> IF ~FitsI8(-arg) /\ overflow_checks
                      THEN Panic("attempt to negate with overflow")
                      ELSE Ok(new_inc(WrapI8(-arg)))
      [] root = 7  -> Ok(new_open_loop)
      [] root = 9  -> Ok(new_inc(arg))
      [] root = 11 /\ arg = 1 -> Ok(new_output)
      [] root = 11 /\ arg # 1 -> Ok(new_input)
      [] OTHER     -> Err(NonDiatonic)

\* the key of C major (lines 242-254)
c_major(root, arg) ==
    CASE root = 0  -> Ok(new_close_loop)
      [] root = 2  -> Ok(new_move(-arg))
      [] root = 4  -> Ok(new_move(arg))
      [] root = 5  -> IF ~FitsI8(-arg) /\ overflow_checks
                      THEN Panic("attempt to negate with overflow")
                      ELSE Ok(new_inc(WrapI8(-arg)))
      [] root = 7  -> Ok(new_open_loop)
      [] root = 9  -> Ok(new_inc(arg))
      [] root = 11 /\ arg = 1 -> Ok(new_input)
      [] root = 11 /\ arg # 1 -> Ok(new_output)
      [] OTHER     -> Err(NonDiatonic)

\* parse_chord(vals, &c_major) (lines 215-239)
parse_chord(v) ==
    IF v = <<>> THEN Panic("called Option::unwrap() on a None value")
    ELSE IF ScanChord(v).status = "panic" THEN Panic("arithmetic overflow")
    ELSE c_major(v[1] % PitchClasses, chord_amount(v))

-----------------------------------------------------------------------------
(* The callers of parse_chord *)

\* a note joins the chord and the chord is handed over sorted
\* (current_node.push(key) ... current_node.into_sorted_vec())
SortedInsert(v, n) ==
    LET k == Cardinality({i \in DOMAIN v : v[i] <= n})
    IN  SubSeq(v, 1, k) \o <<n>> \o SubSeq(v, k + 1, Len(v))

\* the notes above the base that spell the amount a: b+k+1 for every set bit k
\* (the chords of tests::parse_chord_c_major_args, e.g. 44, 46, 48 over 40 = 1010b)
RECURSIVE AmountNotes(_, _, _)
AmountNotes(b, a, k) ==
    IF k >= AmountBits THEN <<>>
    ELSE (IF (a \div (2 ^ k)) % 2 = 1 THEN <<b + k + 1>> ELSE <<>>)
         \o AmountNotes(b, a, k + 1)

EncodeChord(low, b, a) == <<low, b>> \o AmountNotes(b, a, 0)

Pitches      == 0 .. MaxPitch
LowNotes     == 0 .. (PitchClasses * (MaxLowOct + 1) - 1)
Amounts      == 1 .. I8Max

InitChord ==
    /\ overflow_checks \in BOOLEAN
    /\ vals = <<>>
    /\ encoded = None
    /\ chord_ret = NoRet

\* MidiASTBuilder::new (lines 134-140)
InitBuilder ==
    /\ body = <<>>
    /\ size = 0
    /\ loop_stack = <<>>
    /\ calls = <<>>
    /\ ret = NoRet
    /\ mast = NoRet

\* parse before its first track (lines 260-269)
InitParse ==
    /\ current_node = <<>>
    /\ notes_on = 0
    /\ track = 0
    /\ events = 0
    /\ group = <<>>
    /\ parse_ret = NoRet

\* no program read, no track made
InitBf ==
    /\ bf_program = <<>>
    /\ ml_prog = <<>>

\* no compiler made
InitCompiler ==
    /\ module = <<>>
    /\ builder = ""
    /\ blocks = None
    /\ context = None
    /\ strings = <<>>
    /\ ccalls = <<>>
    /\ cret = NoRet
    /\ pc = "idle"
    /\ midi_program = <<>>

\* no file name given, no naming function called
InitUtils ==
    /\ src_str = <<>>
    /\ name_call = [fn |-> "", ret |-> <<>>]

Init == InitChord /\ InitBuilder /\ InitParse /\ InitBf /\ InitCompiler /\ InitUtils

\* the caller adds one more note to the chord it is assembling
AddNote(n) ==
    /\ chord_ret = NoRet
    /\ Len(vals) < MaxChordLen
    /\ vals' = SortedInsert(vals, n)
    /\ encoded' = None
    /\ UNCHANGED <<overflow_checks, chord_ret>>
    /\ UNCHANGED <<builder_vars, parse_vars, bf_vars, compiler_vars, utils_vars>>

\* the caller builds the chord that spells an amount a over a base b
BuildChord ==
    /\ chord_ret = NoRet
    /\ vals = <<>>
    /\ \E low \in LowNotes : \E g \in 1 .. MaxBaseGap : \E a \in Amounts :
           /\ vals' = EncodeChord(low, low + g, a)
           /\ encoded' = Some(a)
    /\ UNCHANGED <<overflow_checks, chord_ret>>
    /\ UNCHANGED <<builder_vars, parse_vars, bf_vars, compiler_vars, utils_vars>>

\* key(vals): parse_chord(vals, &c_major)
CallParseChord ==
    /\ chord_ret = NoRet
    /\ vals # <<>>
    /\ chord_ret' = parse_chord(vals)
    /\ UNCHANGED <<overflow_checks, vals, encoded>>
    /\ UNCHANGED <<builder_vars, parse_vars, bf_vars, compiler_vars, utils_vars>>

\* the caller starts the next chord
NextChord ==
    /\ chord_ret # NoRet
    /\ vals' = <<>>
    /\ encoded' = None
    /\ chord_ret' = NoRet
    /\ UNCHANGED overflow_checks
    /\ UNCHANGED <<builder_vars, parse_vars, bf_vars, compiler_vars, utils_vars>>

ChordNext ==
    \/ \E n \in Pitches : AddNote(n)
    \/ BuildChord
    \/ CallParseChord
    \/ NextChord

SpecChord == Init /\ [][ChordNext]_vars

-----------------------------------------------------------------------------
(* Properties of the chord decoder *)

DiatonicRoots == {0, 2, 4, 5, 7, 9, 11}

\* the decoding table: the instruction a root and an amount stand for
ExpectedOp(root, a) ==
    CASE root = 0  -> Ok(new_close_loop)
      [] root = 2  -> Ok(new_move(0 - a))
      [] root = 4  -> Ok(new_move(a))
      [] root = 5  -> Ok(new_inc(0 - a))
      [] root = 7  -> Ok(new_open_loop)
      [] root = 9  -> Ok(new_inc(a))
      [] root = 11 -> IF a = 1 THEN Ok(new_input) ELSE Ok(new_output)
      [] OTHER     -> Err(NonDiatonic)

RootOf(v)     == v[1] % PitchClasses
Decoded       == chord_ret # NoRet
IsAscending(v) == \A i \in 1 .. Len(v) - 1 : v[i] < v[i + 1]
OtherNotes(v) == {v[i] : i \in 2 .. Len(v)} \ {v[1]}

\* C1: for every nonempty sorted chord the pitch class of the lowest note alone
\* selects the operation: 0 close-loop, 2 MovePointer(-amount), 4 MovePointer(+amount),
\* 5 IncrementCell(-amount), 7 open-loop, 9 IncrementCell(+amount), 11 InputCell or
\* OutputCell, and every other pitch class fails with NonDiatonic whatever the
\* other notes are.
C1_OperationFromPitchClass ==
    Decoded => chord_ret \in {ExpectedOp(RootOf(vals), a) : a \in Amounts}

\* C2: decoding inverts the bitmask encoding: the chord built from a lowest note of
\* diatonic pitch class r, a base above it and one note b+k+1 per set bit k of a
\* (a in 1..127) decodes to the table's instruction for (r, a); a chord with no note
\* after the base decodes with amount 1.
C2_DecodeInvertsEncoding ==
    (Decoded /\ RootOf(vals) \in DiatonicRoots) =>
        /\ encoded # None => chord_ret = ExpectedOp(RootOf(vals), encoded[1])
        /\ Len(vals) <= 2 => chord_ret = ExpectedOp(RootOf(vals), 1)

C2_Witness ==
    /\ encoded = Some(106)
    /\ Len(vals) = 6
    /\ chord_ret = Ok(new_move(-106))

\* the chord up to, and without, the first note whose gap over the base is too
\* wide for the amount type
RECURSIVE BeforeWideGap(_, _)
BeforeWideGap(v, i) ==
    IF i > Len(v) THEN v
    ELSE IF v[i] - v[2] - 1 >= AmountBits THEN SubSeq(v, 1, i - 1)
    ELSE BeforeWideGap(v, i + 1)

\* C3: a note whose gap (note - base - 1) does not fit the bit-width of the 8-bit
\* signed amount makes parse_chord stop accumulating and return the amount built from
\* the earlier notes; parse_chord never fails, overflows or yields a non-positive
\* amount because of such a note.
C3_WideGapTruncates ==
    (Decoded /\ IsAscending(vals)) =>
        /\ chord_ret.tag # "Panic"
        /\ chord_amount(vals) >= 1
        /\ chord_ret = parse_chord(BeforeWideGap(vals, 3))

\* C4: only distinct note values count: adding a repeated copy of a note already in
\* the chord does not change the instruction parse_chord returns.
C4_DuplicatesIgnored ==
    Decoded =>
        \A i \in DOMAIN vals : parse_chord(SortedInsert(vals, vals[i])) = chord_ret

-----------------------------------------------------------------------------
(* MidiASTBuilder *)

\* the builder of the current state
self == [body |-> body, size |-> size, loop_stack |-> loop_stack]

\* push_open recording the index after the open marker as the loop start
push_open_start_after(b) ==
    [b EXCEPT !.loop_stack = Append(@, <<b.body, b.size + 1>>), !.body = <<>>]

\* push, open-loop arm (lines 144-148)
push_open(b) ==
    [b EXCEPT !.loop_stack = Append(@, <<b.body, b.size>>), !.body = <<>>]

\* push_close stamping the loop with the index after the close marker
push_close_end_after(b) ==
    IF b.loop_stack # <<>>
    THEN LET top == b.loop_stack[Len(b.loop_stack)]
             lp  == MidiInstruction(Some(Position(top[2], b.size + 1)), "Loop", 0, b.body)
         IN  Ok([b EXCEPT !.loop_stack = SubSeq(@, 1, Len(@) - 1),
                          !.body = Append(top[1], lp)])
    ELSE Err(DanglingLoop(Position(b.size, b.size)))

\* push_close accepting a close with no open loop, leaving the error to into_mast
push_close_silent(b) ==
    IF b.loop_stack # <<>>
    THEN LET top == b.loop_stack[Len(b.loop_stack)]
             lp  == MidiInstruction(Some(Position(top[2], b.size)), "Loop", 0, b.body)
         IN  Ok([b EXCEPT !.loop_stack = SubSeq(@, 1, Len(@) - 1),
                          !.body = Append(top[1], lp)])
    ELSE Ok(b)

\* push, close-loop arm (lines 149-163): the builder after it, or the error returned
push_close(b) ==
    IF b.loop_stack # <<>>
    THEN LET top         == b.loop_stack[Len(b.loop_stack)]
             before_loop == top[1]
             loop_start  == top[2]
             lp          == MidiInstruction(Some(Position(loop_start, b.size)),
                                            "Loop", 0, b.body)
         IN  Ok([b EXCEPT !.loop_stack = SubSeq(@, 1, Len(@) - 1),
                          !.body = Append(before_loop, lp)])
    ELSE Err(DanglingLoop(Position(b.size, b.size)))

\* push_leaf appending the instruction without stamping its position
push_leaf_unstamped(b, inst) ==
    [b EXCEPT !.body = Append(@, inst)]

\* push_leaf stamping the instruction but replacing the body by it
push_leaf_replaces_body(b, inst) ==
    [b EXCEPT !.body = <<set_position(inst, Position(b.size, b.size))>>]

\* push, leaf arm (lines 164-167)
push_leaf(b, inst) ==
    [b EXCEPT !.body = Append(@, set_position(inst, Position(b.size, b.size)))]

\* push_done returning Ok without counting the instruction
push_done_no_increment(b) == [self |-> b, ret |-> Ok(Unit)]

\* self.size += 1; Ok(()) (lines 169-170)
push_done(b) == [self |-> [b EXCEPT !.size = @ + 1], ret |-> Ok(Unit)]

\* MidiASTBuilder::push (lines 142-171): the builder afterwards and the value returned
push(b, inst) ==
    IF IsOpenLoop(inst) THEN push_done(push_open(b))
    ELSE IF IsCloseLoop(inst) THEN
        LET r == push_close(b)
        IN  IF r.tag = "Err" THEN [self |-> b, ret |-> r] ELSE push_done(r.val[1])
    ELSE push_done(push_leaf(b, inst))

\* into_mast reporting only the innermost open loop
into_mast_last_only(b) ==
    IF b.loop_stack = <<>> THEN Ok(b.body)
    ELSE LET start == b.loop_stack[Len(b.loop_stack)][2]
         IN  Err(UnclosedLoop(<<Position(start, start)>>))

\* MidiASTBuilder::into_mast (lines 173-182)
into_mast(b) ==
    IF b.loop_stack = <<>> THEN Ok(b.body)
    ELSE Err(UnclosedLoop([i \in DOMAIN b.loop_stack |->
                              Position(b.loop_stack[i][2], b.loop_stack[i][2])]))

Leaves     == {new_inc(1), new_move(-1)}
PushInputs == Leaves \cup {new_open_loop, new_close_loop}

\* mast_builder.push(inst)
Push(inst) ==
    /\ Len(calls) < MaxPushes
    /\ LET r == push(self, inst)
       IN  /\ body' = r.self.body
           /\ size' = r.self.size
           /\ loop_stack' = r.self.loop_stack
           /\ ret' = r.ret
           /\ calls' = Append(calls, [inst |-> inst, ok |-> r.ret.tag = "Ok"])
    /\ mast' = NoRet
    /\ UNCHANGED <<chord_vars, parse_vars, bf_vars, compiler_vars, utils_vars>>

\* mast_builder.into_mast()
IntoMast ==
    /\ mast = NoRet
    /\ mast' = into_mast(self)
    /\ UNCHANGED <<body, size, loop_stack, calls, ret>>
    /\ UNCHANGED <<chord_vars, parse_vars, bf_vars, compiler_vars, utils_vars>>

BuilderNext ==
    \/ \E inst \in PushInputs : Push(inst)
    \/ IntoMast

BuilderInit ==
    /\ overflow_checks = TRUE
    /\ vals = <<>>
    /\ encoded = None
    /\ chord_ret = NoRet
    /\ InitBuilder
    /\ InitParse
    /\ InitBf
    /\ InitCompiler
    /\ InitUtils

SpecBuilder == BuilderInit /\ [][BuilderNext]_vars

-----------------------------------------------------------------------------
(* Properties of the AST builder *)

\* the instructions push accepted, in order: the source index of an instruction
\* is its 0-based place in this sequence
RECURSIVE Accepted(_)
Accepted(cs) ==
    IF cs = <<>> THEN <<>>
    ELSE (IF cs[1].ok THEN <<cs[1].inst>> ELSE <<>>) \o Accepted(Tail(cs))

pushed        == Accepted(calls)
AllAccepted   == \A i \in DOMAIN calls : calls[i].ok
Opens(p, i)   == Cardinality({k \in 1 .. i : IsOpenLoop(p[k])})
Closes(p, i)  == Cardinality({k \in 1 .. i : IsCloseLoop(p[k])})
Depth(p, i)   == Opens(p, i) - Closes(p, i)

\* the close marker at place j (1-based) closes the open marker at place i
Matches(p, i, j) ==
    /\ i \in DOMAIN p /\ j \in DOMAIN p /\ i < j
    /\ IsOpenLoop(p[i]) /\ IsCloseLoop(p[j])
    /\ Depth(p, j) = Depth(p, i) - 1
    /\ \A k \in i .. j - 1 : Depth(p, k) >= Depth(p, i)

\* the open marker at place i (1-based) is still open at the end of p
StillOpen(p, i) ==
    /\ i \in DOMAIN p /\ IsOpenLoop(p[i])
    /\ \A k \in i .. Len(p) : Depth(p, k) >= Depth(p, i)

\* every Loop of a program, at any depth
RECURSIVE LoopsOf(_)
LoopsOf(prog) ==
    UNION {IF prog[i].kind = "Loop" THEN {prog[i]} \cup LoopsOf(prog[i].body) ELSE {}
           : i \in DOMAIN prog}

Stamped(p, i) == [p[i] EXCEPT !.position = Some(Position(i - 1, i - 1))]
Finished      == mast # NoRet

\* C6: in every program into_mast returns, each Loop, at any depth, carries
\* Position(s, e) with s the index of the push of its open marker and e the index of
\* the push of its matching close marker (s < e); open, k leaves, close on a fresh
\* builder gives one Loop of position (0, k+1) whose body is the k leaves in order.
C6_LoopSpansOpenToClose ==
    (Finished /\ mast.tag = "Ok") =>
        /\ \A lp \in LoopsOf(mast.val[1]) :
               /\ lp.position # None
               /\ lp.position[1].start < lp.position[1].end
               /\ Matches(pushed, lp.position[1].start + 1, lp.position[1].end + 1)
        /\ (/\ AllAccepted /\ Len(calls) >= 2
            /\ IsOpenLoop(pushed[1]) /\ IsCloseLoop(pushed[Len(pushed)])
            /\ \A i \in 2 .. Len(pushed) - 1 : IsLeaf(pushed[i])) =>
               mast.val[1] =
                   <<MidiInstruction(Some(Position(0, Len(pushed) - 1)), "Loop", 0,
                                     [i \in 1 .. Len(pushed) - 2 |-> Stamped(pushed, i + 1)])>>

C6_Witness ==
    /\ Finished /\ mast.tag = "Ok"
    /\ \E lp \in LoopsOf(mast.val[1]) :
           /\ lp.position[1].start > 0
           /\ \E i \in DOMAIN lp.body : lp.body[i].kind = "Loop"
    /\ Len(calls) > Len(pushed)

NestedLoopPushes ==
    /\ Len(calls) = 7 /\ AllAccepted
    /\ IsLeaf(pushed[1]) /\ IsOpenLoop(pushed[2]) /\ IsLeaf(pushed[3])
    /\ IsOpenLoop(pushed[4]) /\ IsLeaf(pushed[5])
    /\ IsCloseLoop(pushed[6]) /\ IsCloseLoop(pushed[7])

\* C7 as claimed: pushing X, open, Y, open, Z, close, close (X, Y, Z leaves) on a
\* fresh builder and finalizing yields a 2-element program whose second element is a
\* Loop spanning (1, 6) and whose body's nested Loop spans (2, 5).
C7_NestedLoopSpans_2_5 ==
    (NestedLoopPushes /\ Finished) =>
        /\ mast.tag = "Ok"
        /\ Len(mast.val[1]) = 2
        /\ mast.val[1][2].kind = "Loop"
        /\ mast.val[1][2].position = Some(Position(1, 6))
        /\ \E i \in DOMAIN mast.val[1][2].body :
               /\ mast.val[1][2].body[i].kind = "Loop"
               /\ mast.val[1][2].body[i].position = Some(Position(2, 5))

\* C7: pushing X, open, Y, open, Z, close, close (X, Y, Z leaves) on a fresh builder
\* and finalizing yields the 2-element program X, Loop; the Loop spans (1, 6) and its
\* body is Y followed by the nested Loop, which spans (3, 5) and holds Z.
C7_NestedLoopSpans ==
    (NestedLoopPushes /\ Finished) =>
        /\ mast.tag = "Ok"
        /\ Len(mast.val[1]) = 2
        /\ mast.val[1][1] = Stamped(pushed, 1)
        /\ mast.val[1][2].kind = "Loop"
        /\ mast.val[1][2].position = Some(Position(1, 6))
        /\ mast.val[1][2].body =
               <<Stamped(pushed, 3),
                 MidiInstruction(Some(Position(3, 5)), "Loop", 0, <<Stamped(pushed, 5)>>)>>

C7_Witness == NestedLoopPushes /\ Finished /\ mast.tag = "Ok"

AllLeaves == \A i \in DOMAIN calls : IsLeaf(calls[i].inst)

\* C8: pushing n leaf instructions on a fresh builder makes every push succeed,
\* leaves size = n, and into_mast returns the n leaves in push order, the i-th
\* (0-based) with position (i, i).
C8_FlatProgram ==
    AllLeaves =>
        /\ AllAccepted
        /\ ret \in {NoRet, Ok(Unit)}
        /\ size = Len(calls)
        /\ Finished =>
               mast = Ok([i \in 1 .. Len(calls) |->
                             [calls[i].inst EXCEPT !.position = Some(Position(i - 1, i - 1))]])

C8_Witness ==
    /\ AllLeaves /\ Len(calls) = 4
    /\ calls[1].inst # calls[2].inst
    /\ Finished /\ mast.tag = "Ok"

\* the step is a call of push with a close-loop marker
IsCloseCall ==
    /\ Len(calls') = Len(calls) + 1
    /\ IsCloseLoop(calls'[Len(calls')].inst)

\* C9: after any sequence of successful pushes, pushing a close-loop marker fails if
\* and only if the loop stack is empty (as many closes as opens so far); the failure
\* is what that very push returns, and is DanglingLoop carrying the current size,
\* which is the source index of the offending close.
C9_DanglingCloseRejected ==
    [][(IsCloseCall /\ AllAccepted) =>
           /\ (ret'.tag = "Err") <=> (loop_stack = <<>>)
           /\ (loop_stack = <<>>) <=>
                  (Opens(pushed, Len(pushed)) = Closes(pushed, Len(pushed)))
           /\ ret'.tag = "Err" =>
                  /\ ret' = Err(DanglingLoop(Position(size, size)))
                  /\ size = Len(calls)
                  /\ ~calls'[Len(calls')].ok
           /\ ret'.tag # "Err" => ret' = Ok(Unit)]_vars

C9_Witness ==
    /\ Len(calls) = 5
    /\ \A i \in 1 .. 4 : calls[i].ok
    /\ Closes(pushed, 4) = 2
    /\ ret = Err(DanglingLoop(Position(4, 4)))

\* C10: into_mast returns Ok exactly when the loop stack is empty; otherwise it
\* returns UnclosedLoop with one position per still-open loop, each (start, start)
\* for that loop's open index, outermost-opened first (strictly increasing start).
C10_UnclosedLoopsReported ==
    Finished =>
        /\ (mast.tag = "Ok") <=> (loop_stack = <<>>)
        /\ (mast.tag = "Ok") <=> (\A i \in DOMAIN pushed : ~StillOpen(pushed, i))
        /\ mast.tag # "Ok" =>
               /\ mast.tag = "Err"
               /\ mast.val[1].err = "UnclosedLoop"
               /\ LET ls == mast.val[1].loops
                  IN  /\ Len(ls) = Len(loop_stack)
                      /\ \A i \in DOMAIN ls : ls[i].start = ls[i].end
                      /\ \A i \in DOMAIN ls : StillOpen(pushed, ls[i].start + 1)
                      /\ \A i \in DOMAIN pushed :
                             StillOpen(pushed, i) => \E k \in DOMAIN ls : ls[k].start = i - 1
                      /\ \A i \in 1 .. Len(ls) - 1 : ls[i].start < ls[i + 1].start

C10_Witness ==
    /\ Finished
    /\ mast = Err(UnclosedLoop(<<Position(1, 1), Position(5, 5)>>))

\* the step is a call of push
IsPushCall == Len(calls') = Len(calls) + 1

\* C11 as claimed: every call to push, whether the instruction is an open-loop
\* marker, a close-loop marker or a leaf, increases size by exactly one.
C11_EveryPushCounts ==
    [][IsPushCall => size' = size + 1]_vars

\* C11: every call to push that returns Ok, whether the instruction is an open-loop
\* marker, a close-loop marker or a leaf, increases size by exactly one; a push that
\* returns Err (a close with no open loop) leaves size and the rest of the builder
\* as they were.
C11_AcceptedPushCounts ==
    [][IsPushCall =>
           /\ ret'.tag \in {"Ok", "Err"}
           /\ ret'.tag = "Ok" => size' = size + 1
           /\ ret'.tag = "Err" =>
                  /\ IsCloseLoop(calls'[Len(calls')].inst)
                  /\ size' = size /\ body' = body /\ loop_stack' = loop_stack]_vars

C11_Witness ==
    /\ Len(calls) = 6 /\ size = 4
    /\ \E i, j, k \in DOMAIN pushed :
           IsOpenLoop(pushed[i]) /\ IsCloseLoop(pushed[j]) /\ IsLeaf(pushed[k])

\* the markers and leaves a program stands for, in order: each Loop as an open
\* marker, its body, a close marker; each leaf without its position
RECURSIVE Flatten(_)
Flatten(prog) ==
    IF prog = <<>> THEN <<>>
    ELSE (IF prog[1].kind = "Loop"
          THEN <<new_open_loop>> \o Flatten(prog[1].body) \o <<new_close_loop>>
          ELSE <<[prog[1] EXCEPT !.position = None]>>)
         \o Flatten(Tail(prog))

\* the source indices met in that flattening: a Loop's start, its body's, its end
RECURSIVE FlatIndices(_)
FlatIndices(prog) ==
    IF prog = <<>> THEN <<>>
    ELSE (IF prog[1].kind = "Loop"
          THEN <<prog[1].position[1].start>> \o FlatIndices(prog[1].body)
               \o <<prog[1].position[1].end>>
          ELSE <<prog[1].position[1].start>>)
         \o FlatIndices(Tail(prog))

\* C12: when the pushes all succeed and into_mast returns Ok, the program is the
\* well-formed nesting of the pushed sequence: flattening it reproduces the pushed
\* sequence, every open marker is paired with one close in last-opened/first-closed
\* order, and the positions met are 0, 1, ..., size-1, none missing or repeated.
C12_WellFormedTree ==
    (Finished /\ mast.tag = "Ok") =>
        /\ Flatten(mast.val[1]) = pushed
        /\ FlatIndices(mast.val[1]) = [i \in 1 .. size |-> i - 1]
        /\ Len(pushed) = size
        /\ \A i \in DOMAIN pushed :
               IsOpenLoop(pushed[i]) =>
                   /\ \E j \in DOMAIN pushed : Matches(pushed, i, j)
                   /\ \A j, k \in DOMAIN pushed :
                          (Matches(pushed, i, j) /\ Matches(pushed, i, k)) => j = k
        /\ \A lp \in LoopsOf(mast.val[1]) : \A i \in DOMAIN lp.body :
               /\ lp.position[1].start < lp.body[i].position[1].start
               /\ lp.body[i].position[1].end < lp.position[1].end

C12_Witness ==
    /\ Finished /\ mast.tag = "Ok" /\ AllAccepted /\ size = 7
    /\ \E lp \in LoopsOf(mast.val[1]) : \E i \in DOMAIN lp.body :
           lp.body[i].kind = "Loop" /\ lp.body[i].body # <<>>

(***************************************************************************)
(* parse (parser.rs): the walk over the tracks of a file.  The state of    *)
(* the walk is a record ps: the heap of struck keys, the held-note         *)
(* counter, the builder, what parse has returned (NoRet while it runs),    *)
(* and the last decoder call (chord handed over, node or error returned,   *)
(* what push answered).                                                    *)
(***************************************************************************)
NoteOn(key) == [kind |-> "NoteOn", key |-> key]
NoteOff(key) == [kind |-> "NoteOff", key |-> key]
Ignored == [kind |-> "Other", key |-> 0]

\* lines 260-269: the builder and the heap are made once, before the track loop
parse_new ==
    [current_node |-> <<>>, notes_on |-> 0, ast_builder |-> [body |-> <<>>, size |-> 0, loop_stack |-> <<>>],
     ret |-> NoRet, vals |-> <<>>, node |-> NoRet, push_ret |-> NoRet]

\* line 272: each track starts its own counter; the heap is left as it is
parse_track_start(ps) == [ps EXCEPT !.notes_on = 0]

\* lines 277-281
parse_note_on(ps, key) ==
    [ps EXCEPT !.current_node = SortedInsert(ps.current_node, key),
               !.notes_on = ps.notes_on + 1]

\* lines 286-298: the heap's sorted vector goes to the decoder, the node to push
parse_decode(ps) ==
    LET v == ps.current_node
        r == parse_chord(v)
        called == [ps EXCEPT !.vals = v, !.node = r, !.push_ret = NoRet]
    IN  IF r.tag = "Ok"
        THEN LET p == push(ps.ast_builder, r.val[1])
             IN  IF p.ret.tag = "Err"
                 THEN [called EXCEPT !.push_ret = p.ret, !.ret = p.ret]
                 ELSE [called EXCEPT !.push_ret = p.ret, !.ast_builder = p.self,
                                     !.current_node = <<>>]
        ELSE [called EXCEPT !.ret = r]

\* a NoteOff arm that decodes whenever no note is held any more
parse_note_off_at_or_below_zero(ps) ==
    LET n == ps.notes_on - 1
    IN  IF n <= 0 THEN [parse_decode(ps) EXCEPT !.notes_on = n]
                  ELSE [ps EXCEPT !.notes_on = n]

\* lines 282-299
parse_note_off(ps) ==
    LET n == ps.notes_on - 1
    IN  IF n = 0 THEN [parse_decode(ps) EXCEPT !.notes_on = n]
                 ELSE [ps EXCEPT !.notes_on = n]

\* lines 274-303: one track event; nothing is read once parse has returned
parse_event(ps, ev) ==
    IF ps.ret # NoRet THEN ps
    ELSE IF ev.kind = "NoteOn" THEN parse_note_on(ps, ev.key)
    ELSE IF ev.kind = "NoteOff" THEN parse_note_off(ps)
    ELSE ps

RECURSIVE parse_events(_, _)
parse_events(ps, evs) ==
    IF evs = <<>> THEN ps
    ELSE parse_events(parse_event(ps, Head(evs)), Tail(evs))

RECURSIVE parse_tracks(_, _)
parse_tracks(ps, tracks) ==
    IF tracks = <<>> \/ ps.ret # NoRet THEN ps
    ELSE parse_tracks(parse_events(parse_track_start(ps), Head(tracks)), Tail(tracks))

\* line 308
parse_end(ps) == into_mast(ps.ast_builder)

\* lines 256-309
parse(midi) ==
    IF midi = <<>> THEN Err(NoTracks)
    ELSE LET ps == parse_tracks(parse_new, midi)
         IN  IF ps.ret # NoRet THEN ps.ret ELSE parse_end(ps)

-----------------------------------------------------------------------------
(* parse, one track event at a time *)

\* keys of the events: close loop, open loop, a non-diatonic key, increment,
\* and a key far enough above them for a gap of 7 or 8
ParseKeys == {0, 7, 8, 9, 17}

\* the walk as the variables hold it
parse_state ==
    [current_node |-> current_node, notes_on |-> notes_on, ast_builder |-> self,
     ret |-> parse_ret, vals |-> vals, node |-> chord_ret, push_ret |-> ret]

\* the variables after a step of the walk that left it in ps
ParseStep(ps) ==
    /\ current_node' = ps.current_node
    /\ notes_on' = ps.notes_on
    /\ body' = ps.ast_builder.body
    /\ size' = ps.ast_builder.size
    /\ loop_stack' = ps.ast_builder.loop_stack
    /\ parse_ret' = ps.ret
    /\ vals' = ps.vals
    /\ chord_ret' = ps.node
    /\ ret' = ps.push_ret
    /\ UNCHANGED <<overflow_checks, encoded, mast, bf_vars, compiler_vars, utils_vars>>

ParseRunning == parse_ret = NoRet /\ events < MaxEvents

\* if midi.tracks.is_empty() (lines 265-267)
ParseNoTracks ==
    /\ parse_ret = NoRet
    /\ track = 0
    /\ parse_ret' = Err(NoTracks)
    /\ UNCHANGED <<chord_vars, builder_vars, current_node, notes_on, track, events, group, bf_vars, compiler_vars, utils_vars>>

\* for track in midi.tracks (lines 271-272)
ParseTrack ==
    /\ parse_ret = NoRet
    /\ track < MaxTracks
    /\ track' = track + 1
    /\ group' = <<>>
    /\ ParseStep(parse_track_start(parse_state))
    /\ UNCHANGED <<calls, events>>

\* MidiMessage::NoteOn (lines 277-281)
ParseNoteOn(key) ==
    /\ ParseRunning
    /\ track > 0
    /\ events' = events + 1
    /\ group' = SortedInsert(group, key)
    /\ ParseStep(parse_event(parse_state, NoteOn(key)))
    /\ UNCHANGED <<calls, track>>

\* MidiMessage::NoteOff (lines 282-299)
ParseNoteOff ==
    /\ ParseRunning
    /\ track > 0
    /\ events' = events + 1
    /\ LET ps == parse_event(parse_state, NoteOff(0))
           decoded == notes_on - 1 = 0
       IN  /\ ParseStep(ps)
           /\ group' = IF decoded THEN <<>> ELSE group
           /\ calls' = IF decoded /\ ps.node.tag = "Ok"
                       THEN Append(calls, [inst |-> ps.node.val[1],
                                           ok |-> ps.push_ret.tag = "Ok"])
                       ELSE calls
    /\ UNCHANGED track

\* any other track event (lines 300-302)
ParseIgnored ==
    /\ ParseRunning
    /\ track > 0
    /\ events' = events + 1
    /\ ParseStep(parse_event(parse_state, Ignored))
    /\ UNCHANGED <<calls, track, group>>

\* the tracks are exhausted: ast_builder.into_mast() (line 308)
ParseFinish ==
    /\ parse_ret = NoRet
    /\ track > 0
    /\ parse_ret' = parse_end(parse_state)
    /\ UNCHANGED <<chord_vars, builder_vars, current_node, notes_on, track, events, group, bf_vars, compiler_vars, utils_vars>>

ParseNext ==
    \/ ParseNoTracks
    \/ ParseTrack
    \/ \E key \in ParseKeys : ParseNoteOn(key)
    \/ ParseNoteOff
    \/ ParseIgnored
    \/ ParseFinish

SpecParse == Init /\ [][ParseNext]_vars

\* parse has just handed a chord to the decoder
IsDecodeCall == events' = events + 1 /\ notes_on' = 0 /\ notes_on = 1

\* C13: every chord handed to the decoder is exactly the keys of the NoteOn
\* events read since the held-note counter was last at its reset value, and
\* each such call adds at most one instruction to the program.
C13_DecodedIsTheGroup ==
    [][IsDecodeCall =>
           /\ vals' = group
           /\ size' \in {size, size + 1}
           /\ chord_ret' # NoRet]_vars

-----------------------------------------------------------------------------
(***************************************************************************)
(* from_brainfuck (lib.rs): one note per brainfuck character on the        *)
(* program track, and parse applied to the file it made.                   *)
(***************************************************************************)
BfChars == {"]", "<", ">", "-", "[", "+", ",", "."}
Text    == BfChars \cup {"x"}

\* the match with '+' and '-' exchanged
bf_key_plus_minus_swapped(inst) ==
    CASE inst = "]" -> 0 [] inst = "<" -> 2 [] inst = ">" -> 4 [] inst = "-" -> 9
      [] inst = "[" -> 7 [] inst = "+" -> 5 [] inst = "," -> 11

\* let key = match inst (lines 83-91)
bf_key(inst) ==
    CASE inst = "]" -> 0 [] inst = "<" -> 2 [] inst = ">" -> 4 [] inst = "-" -> 5
      [] inst = "[" -> 7 [] inst = "+" -> 9 [] inst = "," -> 11

\* the events one character adds to tracks[1] (lines 82-105)
bf_events(inst) ==
    IF inst = "."
    THEN <<NoteOn(11), NoteOn(15), NoteOn(18), NoteOff(18), NoteOff(15), NoteOff(11)>>
    ELSE IF inst \in BfChars
    THEN <<NoteOn(bf_key(inst)), NoteOff(bf_key(inst))>>
    ELSE <<>>

\* Smf::new and the two tracks: meta track, program track (lines 78-81)
BfNew ==
    /\ ml_prog = <<>>
    /\ ml_prog' = << <<>>, <<>> >>
    /\ UNCHANGED <<chord_vars, builder_vars, parse_vars, bf_program, compiler_vars, utils_vars>>

\* one turn of for inst in bf_program.chars() (lines 82-105)
BfChar(inst) ==
    /\ ml_prog # <<>>
    /\ parse_ret = NoRet
    /\ Len(bf_program) < MaxText
    /\ bf_program' = Append(bf_program, inst)
    /\ ml_prog' = [ml_prog EXCEPT ![2] = @ \o bf_events(inst)]
    /\ UNCHANGED <<chord_vars, builder_vars, parse_vars, compiler_vars, utils_vars>>

\* parse of the file from_brainfuck made
BfParse ==
    /\ ml_prog # <<>>
    /\ parse_ret = NoRet
    /\ parse_ret' = parse(ml_prog)
    /\ UNCHANGED <<chord_vars, builder_vars, current_node, notes_on, track, events, group, bf_vars, compiler_vars, utils_vars>>

BfNext ==
    \/ BfNew
    \/ \E inst \in Text : BfChar(inst)
    \/ BfParse

SpecBf == Init /\ [][BfNext]_vars

\* the brainfuck instructions of the text read, other characters skipped
BfText == SelectSeq(bf_program, LAMBDA c : c \in BfChars)

BfInst(c) ==
    CASE c = "+" -> new_inc(1) [] c = "-" -> new_inc(-1)
      [] c = ">" -> new_move(1) [] c = "<" -> new_move(-1)
      [] c = "," -> new_input [] c = "." -> new_output
      [] c = "[" -> new_open_loop [] c = "]" -> new_close_loop

RECURSIVE BfDepth(_, _)
BfDepth(text, n) ==
    IF n = 0 THEN 0
    ELSE BfDepth(text, n - 1) + (IF text[n] = "[" THEN 1 ELSE IF text[n] = "]" THEN -1 ELSE 0)

Balanced(text) ==
    /\ \A n \in 0 .. Len(text) : BfDepth(text, n) >= 0
    /\ BfDepth(text, Len(text)) = 0

\* C20: for a brainfuck text with balanced brackets, parse of the file that
\* from_brainfuck makes returns the instruction tree of the text: '+' Inc(1),
\* '-' Inc(-1), '>' Move(1), '<' Move(-1), ',' Input, '.' Output, '[' and ']'
\* a Loop, every other character skipped.
C20_BrainfuckRoundTrip ==
    (parse_ret # NoRet /\ Balanced(BfText)) =>
        /\ parse_ret.tag = "Ok"
        /\ Flatten(parse_ret.val[1]) = [i \in 1 .. Len(BfText) |-> BfInst(BfText[i])]
        /\ FlatIndices(parse_ret.val[1]) = [i \in 1 .. Len(BfText) |-> i - 1]

C20_Witness ==
    /\ parse_ret # NoRet /\ parse_ret.tag = "Ok"
    /\ Len(bf_program) = MaxText
    /\ \E i, j, k, l \in DOMAIN bf_program :
           /\ i < j /\ j < k
           /\ bf_program[i] = "[" /\ bf_program[j] = "." /\ bf_program[k] = "]"
           /\ bf_program[l] = "x"

-----------------------------------------------------------------------------
(***************************************************************************)
(* MidiCompiler (compiler.rs).  The compiler is the record mc of its       *)
(* fields; its module field is the sequence of backend calls made on the   *)
(* native module and builder, each with the block the builder stood at.    *)
(***************************************************************************)
\* a u64 as its two 32-bit words: the value is hi * 2^32 + lo
u64(n)      == [hi |-> 0, lo |-> n]
U64(hi, lo) == [hi |-> hi, lo |-> lo]

(* MCompileError *)
LLVMError(msg)       == [err |-> "LLVMError", msg |-> msg]
UninitializedContext == [err |-> "UninitializedContext"]

(* operands of backend calls *)
(* LLVMConstInt keeps the bits of val that fit the type (lines 33-49) *)
int32(val)  == [ty |-> "i32", int |-> val.lo, ref |-> ""]
int8(val)   == [ty |-> "i8", int |-> val.lo % 256, ref |-> ""]
int1(val)   == [ty |-> "i1", int |-> val.lo % 2, ref |-> ""]
Value(name) == [ty |-> "value", int |-> 0, ref |-> name]

midimod == [module |-> module, builder |-> builder, blocks |-> blocks,
            context |-> context, strings |-> strings]

\* MidiCompiler::new (lines 96-113)
new(module_name) ==
    [module |-> <<>>, builder |-> "", blocks |-> None, context |-> None,
     strings |-> <<module_name>>]

\* new_string_ptr / new_mut_string_ptr (lines 277-288)
new_string_ptr(mc, s) == [mc EXCEPT !.strings = Append(@, s)]

\* a call on the module that builds no instruction
ModuleCall(mc, fn, name) ==
    [mc EXCEPT !.module = Append(@, [fn |-> fn, name |-> name, callee |-> "",
                                      args |-> <<>>, at |-> ""])]

\* a call on the builder: the instruction goes where the builder stands
BuilderCall(mc, fn, name, callee, args) ==
    [mc EXCEPT !.module = Append(@, [fn |-> fn, name |-> name, callee |-> callee,
                                      args |-> args, at |-> mc.builder])]

\* add_function (lines 240-250)
add_function(mc, fn_name) ==
    ModuleCall(new_string_ptr(mc, fn_name), "LLVMAddFunction", fn_name)

\* add_function_call (lines 252-266)
add_function_call(mc, fn_name, fn_args, name) ==
    BuilderCall(new_string_ptr(new_string_ptr(mc, fn_name), name),
                "LLVMBuildCall", name, fn_name, fn_args)

\* position_builder_at_end (lines 268-272)
position_builder_at_end(mc, bb) == [mc EXCEPT !.builder = bb]

\* add_c_declarations (lines 132-154)
add_c_declarations(mc) ==
    add_function(add_function(add_function(add_function(add_function(mc,
        "malloc"), "free"), "putchar"), "getchar"), "llvm.memset.p0i8.i32")

\* add_main_fn (lines 188-194)
add_main_fn(mc) ==
    ModuleCall(new_string_ptr(mc, "main"), "LLVMAddFunction", "main")

\* add_initial_blocks (lines 196-210)
add_initial_blocks(mc) ==
    ModuleCall(new_string_ptr(
        ModuleCall(new_string_ptr(mc, "init"), "LLVMAppendBasicBlock", "init"),
        "start"), "LLVMAppendBasicBlock", "start")

\* allocate_cells (lines 158-174)
allocate_cells(mc, num_cells) ==
    LET num_cells_llvm == int32(num_cells)
        m1 == add_function_call(mc, "malloc", <<num_cells_llvm>>, "cells")
    IN  add_function_call(m1, "llvm.memset.p0i8.i32",
            <<Value("cells"), int8(u64(0)), num_cells_llvm, int32(u64(0)), int1(u64(0))>>, "")

\* create_cell_idx_ptr (lines 176-186)
create_cell_idx_ptr(mc) ==
    LET m1 == BuilderCall(new_string_ptr(mc, "cell_idx_ptr"),
                          "LLVMBuildAlloca", "cell_idx_ptr", "", <<>>)
    IN  BuilderCall(m1, "LLVMBuildStore", "", "", <<int32(u64(0)), Value("cell_idx_ptr")>>)

\* MidiCompiler::init (lines 115-130)
init(mc, num_cells) ==
    LET m1 == add_initial_blocks(add_main_fn(add_c_declarations(mc)))
        m2 == position_builder_at_end([m1 EXCEPT !.blocks = Some(<<"init", "start">>)], "init")
        m3 == create_cell_idx_ptr(allocate_cells(m2, num_cells))
        m4 == [m3 EXCEPT !.context = Some([cells_ptr |-> "cells",
                                           cell_idx_ptr |-> "cell_idx_ptr",
                                           main_fn |-> "main"])]
    IN  [self |-> position_builder_at_end(m4, "start"), ret |-> Ok(Unit)]

\* free_cells (lines 226-232)
free_cells(mc, cells) == add_function_call(mc, "free", <<Value(cells)>>, "free_cells")

\* build_return (lines 234-237)
build_return(mc) == BuilderCall(mc, "LLVMBuildRet", "", "", <<int32(u64(0))>>)

\* cleanup building the return before the free
cleanup_return_before_free(mc) ==
    IF mc.context # None
    THEN [self |-> free_cells(build_return(mc), mc.context[1].cells_ptr), ret |-> Ok(Unit)]
    ELSE [self |-> mc, ret |-> Err(UninitializedContext)]

\* MidiCompiler::cleanup (lines 212-224)
cleanup(mc) ==
    IF mc.context # None
    THEN [self |-> build_return(free_cells(mc, mc.context[1].cells_ptr)), ret |-> Ok(Unit)]
    ELSE [self |-> mc, ret |-> Err(UninitializedContext)]

\* MidiCompiler::to_cstring (lines 289-304): the module is printed, not changed
to_cstring(mc) ==
    [self |-> ModuleCall(mc, "LLVMPrintModuleToString", ""), ret |-> Ok(Unit)]

\* a drop that disposes the module before and after the builder
drop_module_twice(mc) ==
    ModuleCall(ModuleCall(ModuleCall(mc, "LLVMDisposeModule", ""),
                          "LLVMDisposeBuilder", ""), "LLVMDisposeModule", "")

\* Drop for MidiCompiler (lines 307-315)
drop(mc) == ModuleCall(ModuleCall(mc, "LLVMDisposeModule", ""), "LLVMDisposeBuilder", "")

\* write_object_code (lines 396-415) with TargetMachine::new (lines 323-359);
\* rejected says which request the backend refuses: "target", "emission" or none
write_object_code(mc, path, rejected) ==
    LET m1 == ModuleCall(mc, "LLVMGetTarget", "")
        m2 == new_string_ptr(new_string_ptr(m1, "Writing object file failed."), path)
        m3 == ModuleCall(m2, "LLVMTargetMachineEmitToFile", path)
    IN  IF rejected = "target"
        THEN [self |-> m1, ret |-> Err(LLVMError("target"))]
        ELSE IF rejected = "emission"
        THEN [self |-> m3, ret |-> Panic("obj_error")]
        ELSE [self |-> m3, ret |-> Ok(Unit)]

-----------------------------------------------------------------------------
(* A caller that owns one MidiCompiler and calls its operations in any order *)

MaxCalls == 4     \* calls made on one compiler
MaxName  == 5     \* characters of a source file name

\* num_cells is a u64: small tapes, the usual 30000, and sizes past 32 bits
NumCells == {u64(0), u64(1), u64(30000), U64(1, 0), U64(1, 1)}
Rejections == {"none", "target", "emission"}

Midimod(mc) ==
    /\ module' = mc.module
    /\ builder' = mc.builder
    /\ blocks' = mc.blocks
    /\ context' = mc.context
    /\ strings' = mc.strings

Called(fn, num_cells, rejected) ==
    ccalls' = Append(ccalls, [fn |-> fn, num_cells |-> num_cells, rejected |-> rejected])

\* the caller may go on: the compiler lives and no call has panicked
Live == pc = "caller" /\ cret.tag # "Panic" /\ Len(ccalls) < MaxCalls

CallNew ==
    /\ pc = "idle"
    /\ Midimod(new("midilang"))
    /\ pc' = "caller"
    /\ UNCHANGED <<chord_vars, builder_vars, parse_vars, bf_vars, utils_vars, ccalls, cret, midi_program>>

CallInit(num_cells) ==
    /\ Live
    /\ LET r == init(midimod, num_cells)
       IN  Midimod(r.self) /\ cret' = r.ret
    /\ Called("init", num_cells, "")
    /\ UNCHANGED <<chord_vars, builder_vars, parse_vars, bf_vars, utils_vars, pc, midi_program>>

CallCleanup ==
    /\ Live
    /\ LET r == cleanup(midimod)
       IN  Midimod(r.self) /\ cret' = r.ret
    /\ Called("cleanup", u64(0), "")
    /\ UNCHANGED <<chord_vars, builder_vars, parse_vars, bf_vars, utils_vars, pc, midi_program>>

CallToCString ==
    /\ Live
    /\ LET r == to_cstring(midimod)
       IN  Midimod(r.self) /\ cret' = r.ret
    /\ Called("to_cstring", u64(0), "")
    /\ UNCHANGED <<chord_vars, builder_vars, parse_vars, bf_vars, utils_vars, pc, midi_program>>

CallWriteObjectCode(rejected) ==
    /\ Live
    /\ LET r == write_object_code(midimod, "out.o", rejected)
       IN  Midimod(r.self) /\ cret' = r.ret
    /\ Called("write_object_code", u64(0), rejected)
    /\ UNCHANGED <<chord_vars, builder_vars, parse_vars, bf_vars, utils_vars, pc, midi_program>>

\* the compiler goes out of scope, by return or by unwinding
DropCompiler ==
    /\ pc = "caller"
    /\ Midimod(drop(midimod))
    /\ pc' = "dropped"
    /\ UNCHANGED <<chord_vars, builder_vars, parse_vars, bf_vars, utils_vars, ccalls, cret, midi_program>>

CompilerNext ==
    \/ CallNew
    \/ \E num_cells \in NumCells : CallInit(num_cells)
    \/ CallCleanup
    \/ CallToCString
    \/ \E rejected \in Rejections : CallWriteObjectCode(rejected)
    \/ DropCompiler

SpecCompiler == Init /\ [][CompilerNext]_vars

-----------------------------------------------------------------------------
(* Properties of the compiler's operations *)

\* this step is a call of fn on the compiler
IsCall(fn) == Len(ccalls') = Len(ccalls) + 1 /\ ccalls'[Len(ccalls')].fn = fn

\* what the call of this step added to the module
Emitted == SubSeq(module', Len(module) + 1, Len(module'))

\* the instructions of block bb, in order
Region(m, bb) == SelectSeq(m, LAMBDA e : e.at = bb)

Primitives == {"malloc", "free", "putchar", "getchar", "llvm.memset.p0i8.i32"}

\* C15: once init has completed, the init block ends with a branch to the
\* start block, the block every later instruction is appended to.
C15_InitBranchesToBody ==
    context # None =>
        LET r == Region(module, "init")
        IN  /\ r # <<>>
            /\ r[Len(r)].fn = "LLVMBuildBr"
            /\ r[Len(r)].name = "start"

\* the order of what one init call emits, sizes left aside
InitOrder(e) ==
    /\ Len(e) = 12
    /\ \A i \in 1 .. 5 : e[i].fn = "LLVMAddFunction"
    /\ {e[i].name : i \in 1 .. 5} = Primitives
    /\ e[6].fn = "LLVMAddFunction" /\ e[6].name = "main"
    /\ e[7].fn = "LLVMAppendBasicBlock" /\ e[7].name = "init"
    /\ e[8].fn = "LLVMAppendBasicBlock" /\ e[8].name = "start"
    /\ \A i \in 9 .. 12 : e[i].at = "init"
    /\ e[9].fn = "LLVMBuildCall" /\ e[9].callee = "malloc" /\ Len(e[9].args) = 1
    /\ e[10].fn = "LLVMBuildCall" /\ e[10].callee = "llvm.memset.p0i8.i32"
    /\ e[10].args[1] = Value(e[9].name)
    /\ e[10].args[2].int = 0
    /\ e[10].args[3] = e[9].args[1]
    /\ e[11].fn = "LLVMBuildAlloca"
    /\ e[12].fn = "LLVMBuildStore"
    /\ e[12].args = <<int32(u64(0)), Value(e[11].name)>>

\* C16: a call of init emits, in this order, the five declarations, the entry
\* routine with its init and start blocks, and in the init block an allocation
\* of num_cells bytes, a zero-fill of the same length and a cursor set to 0.
C16_InitSequence ==
    [][IsCall("init") =>
           /\ InitOrder(Emitted)
           /\ U64(0, Emitted[9].args[1].int) = ccalls'[Len(ccalls')].num_cells]_vars

\* C17: cleanup returns Ok exactly when an init call has set the context;
\* without it cleanup returns UninitializedContext and the module is untouched,
\* with it cleanup appends a free of init's allocation and then a return of 0.
C17_CleanupNeedsInit ==
    [][IsCall("cleanup") =>
           /\ (cret'.tag = "Ok") <=> (context # None)
           /\ (context # None) <=> (\E i \in DOMAIN ccalls : ccalls[i].fn = "init")
           /\ context = None =>
                  /\ cret'.tag = "Err"
                  /\ cret'.val[1] = UninitializedContext
                  /\ module' = module
           /\ context # None =>
                  /\ Len(Emitted) = 2
                  /\ Emitted[1].fn = "LLVMBuildCall" /\ Emitted[1].callee = "free"
                  /\ \E j \in DOMAIN module :
                         /\ module[j].callee = "malloc"
                         /\ Emitted[1].args = <<Value(module[j].name)>>
                  /\ Emitted[2].fn = "LLVMBuildRet"
                  /\ Emitted[2].args = <<int32(u64(0))>>
                  /\ Emitted[1].at = "start" /\ Emitted[2].at = "start"]_vars

C17_Witness ==
    /\ Len(ccalls) = 3
    /\ ccalls[1].fn = "cleanup" /\ ccalls[2].fn = "init" /\ ccalls[3].fn = "cleanup"
    /\ cret.tag = "Ok"

\* C18: a write_object_code call whose target lookup or emission the backend
\* rejects returns Err(LLVMError(msg)).
C18_RejectionIsLLVMError ==
    [][(IsCall("write_object_code") /\ ccalls'[Len(ccalls')].rejected # "none") =>
           /\ cret'.tag = "Err"
           /\ cret'.val[1].err = "LLVMError"]_vars

-----------------------------------------------------------------------------
(* compile_program (lines 382-394), statement by statement *)

RECURSIVE PushAll(_, _)
PushAll(b, insts) ==
    IF insts = <<>> THEN b ELSE PushAll(push(b, Head(insts)).self, Tail(insts))

\* the finished program the builder makes of a well-nested instruction sequence
ProgramOf(insts) ==
    into_mast(PushAll([body |-> <<>>, size |-> 0, loop_stack |-> <<>>], insts)).val[1]

Programs ==
    {ProgramOf(insts) : insts \in
        {<<>>,
         <<new_inc(1)>>,
         <<new_inc(1), new_move(1)>>,
         <<new_open_loop, new_inc(-1), new_close_loop>>,
         <<new_input, new_open_loop, new_move(1), new_close_loop, new_output>>}}

InitCompile ==
    /\ InitChord /\ InitBuilder /\ InitParse /\ InitBf /\ InitUtils
    /\ module = <<>> /\ builder = "" /\ blocks = None /\ context = None
    /\ strings = <<>> /\ ccalls = <<>> /\ cret = NoRet
    /\ pc = "new"
    /\ midi_program \in Programs

\* a return from compile_program: midimod goes out of scope and is dropped
Return(mc, r) ==
    /\ Midimod(drop(mc))
    /\ cret' = r
    /\ pc' = "dropped"

\* let mut midimod = MidiCompiler::new("midilang", None) (lines 384-386)
CompileNew ==
    /\ pc = "new"
    /\ Midimod(new("midilang"))
    /\ pc' = "init"
    /\ UNCHANGED <<chord_vars, builder_vars, parse_vars, bf_vars, utils_vars, ccalls, cret, midi_program>>

\* midimod.init(midi_program.highest_cell() as u64)? (line 387)
CompileInit(num_cells) ==
    /\ pc = "init"
    /\ LET r == init(midimod, num_cells)
       IN  IF r.ret.tag = "Ok"
           THEN Midimod(r.self) /\ cret' = r.ret /\ pc' = "cleanup"
           ELSE Return(r.self, r.ret)
    /\ Called("init", num_cells, "")
    /\ UNCHANGED <<chord_vars, builder_vars, parse_vars, bf_vars, utils_vars, midi_program>>

\* midimod.cleanup()? (line 388)
CompileCleanup ==
    /\ pc = "cleanup"
    /\ LET r == cleanup(midimod)
       IN  IF r.ret.tag = "Ok"
           THEN Midimod(r.self) /\ cret' = r.ret /\ pc' = "to_cstring"
           ELSE Return(r.self, r.ret)
    /\ Called("cleanup", u64(0), "")
    /\ UNCHANGED <<chord_vars, builder_vars, parse_vars, bf_vars, utils_vars, midi_program>>

\* let ir_cstr = midimod.to_cstring(); println!(...) (lines 390-392)
CompilePrint ==
    /\ pc = "to_cstring"
    /\ LET r == to_cstring(midimod)
       IN  Midimod(r.self) /\ cret' = r.ret
    /\ pc' = "return"
    /\ Called("to_cstring", u64(0), "")
    /\ UNCHANGED <<chord_vars, builder_vars, parse_vars, bf_vars, utils_vars, midi_program>>

\* Ok(()) (line 393)
CompileReturn ==
    /\ pc = "return"
    /\ Return(midimod, Ok(Unit))
    /\ UNCHANGED <<chord_vars, builder_vars, parse_vars, bf_vars, utils_vars, ccalls, midi_program>>

CompileNext ==
    \/ CompileNew
    \/ \E num_cells \in NumCells : CompileInit(num_cells)
    \/ CompileCleanup
    \/ CompilePrint
    \/ CompileReturn

SpecCompile == InitCompile /\ [][CompileNext]_vars

\* how often fn was called on the module or the builder
Count(fn) == Cardinality({i \in DOMAIN module : module[i].fn = fn})

\* what the start block holds before cleanup's free
BodyCode ==
    LET r == Region(module, "start")
    IN  SelectSeq(r, LAMBDA e : e.callee # "free" /\ e.fn # "LLVMBuildRet")

\* C14: when compile_program returns Ok, the start block holds, before the
\* free and the return of cleanup, code for every instruction of the program.
C14_BodyHoldsProgram ==
    (pc = "dropped" /\ cret.tag = "Ok") => Len(BodyCode) >= Len(midi_program)

\* C19: when compile_program has returned, the module and the builder have
\* each been disposed once and nothing was done with the module after its
\* disposal; while it runs, neither has been disposed.
C19_DisposedOnce ==
    /\ pc # "dropped" => Count("LLVMDisposeModule") = 0 /\ Count("LLVMDisposeBuilder") = 0
    /\ pc = "dropped" =>
           /\ Count("LLVMDisposeModule") = 1
           /\ Count("LLVMDisposeBuilder") = 1
           /\ \A i, j \in DOMAIN module :
                  (module[i].fn = "LLVMDisposeModule" /\ i < j)
                      => module[j].fn = "LLVMDisposeBuilder"

C19_Witness ==
    /\ pc = "dropped" /\ cret.tag = "Ok"
    /\ Count("LLVMPrintModuleToString") = 1
    /\ midi_program # <<>>

-----------------------------------------------------------------------------
(* Properties of parse: errors and the decoder's input *)

IsParseError(r, e) == r.tag = "Err" /\ r.val[1].err = e

\* C22: parse returns the first failure at once and reports it.  The step
\* that completes a chord with a non-diatonic root returns NonDiatonic, and a
\* close-loop chord met with no loop open returns DanglingLoop, whatever else
\* is open; once parse has returned no event is read; and UnclosedLoop is
\* returned only by the end of the walk, after every chord was decoded and
\* pushed without error.
C22_FirstFailureAborts ==
    [][/\ IsDecodeCall =>
              /\ (vals'[1] % PitchClasses) \notin DiatonicRoots =>
                     IsParseError(parse_ret', "NonDiatonic")
              /\ ((vals'[1] % PitchClasses) = 0 /\ loop_stack = <<>>) =>
                     IsParseError(parse_ret', "DanglingLoop")
              /\ parse_ret'.tag = "Err" => parse_ret' \in {chord_ret', ret'}
       /\ parse_ret # NoRet => UNCHANGED vars
       /\ IsParseError(parse_ret', "UnclosedLoop") =>
              /\ AllAccepted
              /\ chord_ret.tag \in {"None", "Ok"}
              /\ parse_ret' = into_mast(self)]_vars

\* C23: the chord decoder is never handed an empty note list, so it never
\* fails on the unwrap of the first note.
C23_DecoderNeverGetsEmpty ==
    chord_ret # NoRet =>
        /\ vals # <<>>
        /\ chord_ret.tag = "Panic" =>
               chord_ret.val[1] # "called Option::unwrap() on a None value"

\* a chord was decoded in the second track with a key held over from the first
C23_Witness ==
    /\ chord_ret # NoRet
    /\ track = 2
    /\ events = 3
    /\ Len(vals) = 2

-----------------------------------------------------------------------------
(***************************************************************************)
(* utils.rs: file names, as sequences of characters                        *)
(***************************************************************************)
NameChars == {"t", ".", "/", "m", "i", "d", "b", "f"}

\* src_str.strip_suffix(".").unwrap_or(src_str).to_owned() (lines 2-4)
binary_name(src) ==
    IF src # <<>> /\ src[Len(src)] = "." THEN SubSeq(src, 1, Len(src) - 1) ELSE src

\* midi_name (lines 7-10)
midi_name(src) == binary_name(src) \o <<".", "m", "i", "d">>

\* bf_name (lines 12-15)
bf_name(src) == binary_name(src) \o <<".", "b", "f">>

\* the caller spells a file name
NameChar(c) ==
    /\ name_call.fn = ""
    /\ Len(src_str) < MaxName
    /\ src_str' = Append(src_str, c)
    /\ UNCHANGED <<chord_vars, builder_vars, parse_vars, bf_vars, compiler_vars, name_call>>

CallMidiName ==
    /\ name_call.fn = ""
    /\ name_call' = [fn |-> "midi_name", ret |-> midi_name(src_str)]
    /\ UNCHANGED <<chord_vars, builder_vars, parse_vars, bf_vars, compiler_vars, src_str>>

CallBfName ==
    /\ name_call.fn = ""
    /\ name_call' = [fn |-> "bf_name", ret |-> bf_name(src_str)]
    /\ UNCHANGED <<chord_vars, builder_vars, parse_vars, bf_vars, compiler_vars, src_str>>

UtilsNext ==
    \/ \E c \in NameChars : NameChar(c)
    \/ CallMidiName
    \/ CallBfName

SpecUtils == Init /\ [][UtilsNext]_vars

\* where the file-name component of src starts, and the dots in it
FileStart(src) ==
    LET slashes == {i \in DOMAIN src : src[i] = "/"}
    IN  IF slashes = {} THEN 1 ELSE (CHOOSE i \in slashes : \A j \in slashes : j <= i) + 1
Dots(src)   == {i \in FileStart(src) .. Len(src) : src[i] = "."}
\* the file name is a stem, one dot and an extension
HasExtension(src) ==
    \E i \in Dots(src) : Dots(src) = {i} /\ FileStart(src) < i /\ i < Len(src)
TheDot(src) == CHOOSE i \in Dots(src) : TRUE
TargetExt   == IF name_call.fn = "midi_name" THEN <<"m", "i", "d">> ELSE <<"b", "f">>

\* C21: midi_name and bf_name return the name with its extension replaced by
\* mid or bf: a name with an extension keeps what is before the dot, a name
\* with no dot in its file component gets the dot and the extension appended.
C21_ExtensionReplaced ==
    (name_call.fn # "" /\ FileStart(src_str) <= Len(src_str)) =>
        /\ HasExtension(src_str) =>
               name_call.ret = SubSeq(src_str, 1, TheDot(src_str)) \o TargetExt
        /\ Dots(src_str) = {} => name_call.ret = src_str \o <<".">> \o TargetExt
====
